---- MODULE Spec2Model ----
(***************************************************************************)
(* Appointment conflict detection of the kinesiology sports-center backend *)
(* (backend/src/models/Appointment.js, AppointmentSchema.statics           *)
(* .checkConflict) and the booking operations that consult it.             *)
(*                                                                         *)
(* An appointment is the record of the schema fields the detector reads:   *)
(* _id, practitioner, date, startTime, endTime, status.  Times of day are  *)
(* "HH:MM" strings, modelled as the sequence of their UTF-16 code units    *)
(* written as small numbers (digit d is d, ':' is Colon), and compared as  *)
(* JavaScript compares strings: code unit by code unit, a proper prefix    *)
(* being smaller.  A date is a number of clock ticks; a calendar day is    *)
(* DayLen consecutive ticks, the last one standing for 23:59:59.999.       *)
(***************************************************************************)
EXTENDS Integers, Sequences, FiniteSets, TLC

VARIABLES store, call, revived, proc, patients, reply

vars == <<store, call, revived, proc, patients, reply>>

----------------------------------------------------------------------------
(* Bounds of the model *)

MaxAppts == 2
MaxDate == 2
DayLen == 2
MaxPatients == 3
MaxIdDigit == 3

(* excludeId = null, the default of the fifth parameter *)
NoId == 0

(* the code unit of ':' on the scale on which the digit d is d *)
Colon == 10

(* the code unit of ' ' on the same scale *)
Space == 11

----------------------------------------------------------------------------
(* Values *)

Practitioners == {"DrA", "DrB"}

StatusValues ==
  {"Scheduled", "Confirmed", "Completed", "Cancelled", "No-Show", "Rescheduled"}

DefaultStatus == "Scheduled"

Dates == 0..MaxDate

Ids == 1..MaxAppts

(* "HH:MM", zero-padded, as its code units *)
HHMM(h, m) == <<h \div 10, h % 10, Colon, m \div 10, m % 10>>

Times == { HHMM(h, m) : h \in {9, 10}, m \in {0, 30} }

----------------------------------------------------------------------------
(* JavaScript's relational operators on strings *)

RECURSIVE StrLT(_, _)
StrLT(a, b) ==
  IF b = <<>> THEN FALSE
  ELSE IF a = <<>> THEN TRUE
  ELSE IF Head(a) # Head(b) THEN Head(a) < Head(b)
  ELSE StrLT(Tail(a), Tail(b))

StrGT(a, b) == StrLT(b, a)

StrLE(a, b) == ~StrLT(b, a)

StrGE(a, b) == ~StrLT(a, b)

----------------------------------------------------------------------------
(* checkConflict *)

(* setHours(0, 0, 0, 0) left out *)
startOfDay_NoReset(date) == date

startOfDay(date) == date - (date % DayLen)

endOfDay(date) == startOfDay(date) + (DayLen - 1)

(* a filter that also leaves Rescheduled appointments out *)
Query_RescheduledIgnored(practitioner, date, excludeId) ==
  [practitioner |-> practitioner,
   gte |-> startOfDay(date),
   lte |-> endOfDay(date),
   nin |-> {"Cancelled", "No-Show", "Rescheduled"},
   ne |-> excludeId]

(* a filter that leaves No-Show appointments in *)
Query_CancelledOnly(practitioner, date, excludeId) ==
  [practitioner |-> practitioner,
   gte |-> startOfDay(date),
   lte |-> endOfDay(date),
   nin |-> {"Cancelled"},
   ne |-> excludeId]

(* the filter object handed to find *)
Query(practitioner, date, excludeId) ==
  [practitioner |-> practitioner,
   gte |-> startOfDay(date),
   lte |-> endOfDay(date),
   nin |-> {"Cancelled", "No-Show"},
   ne |-> excludeId]

(* the $ne clause on _id left out *)
QueryMatches_NoExclude(q, app) ==
  /\ app.practitioner = q.practitioner
  /\ app.date >= q.gte
  /\ app.date <= q.lte
  /\ app.status \notin q.nin

QueryMatches(q, app) ==
  /\ app.practitioner = q.practitioner
  /\ app.date >= q.gte
  /\ app.date <= q.lte
  /\ app.status \notin q.nin
  /\ (q.ne # NoId => app.id # q.ne)

(* this.find(query): the matching documents, in the collection's order *)
find(docs, q) == SelectSeq(docs, LAMBDA app : QueryMatches(q, app))

(* newStart <= existingEnd in place of newStart < existingEnd *)
NewStartWithin_Inclusive(newStart, newEnd, existingStart, existingEnd) ==
  StrGE(newStart, existingStart) /\ StrLE(newStart, existingEnd)

NewStartWithin(newStart, newEnd, existingStart, existingEnd) ==
  StrGE(newStart, existingStart) /\ StrLT(newStart, existingEnd)

(* newEnd < existingEnd in place of newEnd <= existingEnd *)
NewEndWithin_Exclusive(newStart, newEnd, existingStart, existingEnd) ==
  StrGT(newEnd, existingStart) /\ StrLT(newEnd, existingEnd)

NewEndWithin(newStart, newEnd, existingStart, existingEnd) ==
  StrGT(newEnd, existingStart) /\ StrLE(newEnd, existingEnd)

(* strict comparisons in the third disjunct *)
NewCovers_Strict(newStart, newEnd, existingStart, existingEnd) ==
  StrLT(newStart, existingStart) /\ StrGT(newEnd, existingEnd)

NewCovers(newStart, newEnd, existingStart, existingEnd) ==
  StrLE(newStart, existingStart) /\ StrGE(newEnd, existingEnd)

(* the third disjunct left out *)
Overlaps_NoCover(newStart, newEnd, existingStart, existingEnd) ==
  \/ NewStartWithin(newStart, newEnd, existingStart, existingEnd)
  \/ NewEndWithin(newStart, newEnd, existingStart, existingEnd)

(* the second disjunct left out *)
Overlaps_NoEnd(newStart, newEnd, existingStart, existingEnd) ==
  \/ NewStartWithin(newStart, newEnd, existingStart, existingEnd)
  \/ NewCovers(newStart, newEnd, existingStart, existingEnd)

Overlaps(newStart, newEnd, existingStart, existingEnd) ==
  \/ NewStartWithin(newStart, newEnd, existingStart, existingEnd)
  \/ NewEndWithin(newStart, newEnd, existingStart, existingEnd)
  \/ NewCovers(newStart, newEnd, existingStart, existingEnd)

(* a loop that answers on its first appointment *)
ScanAppointments_FirstOnly(appointments, newStart, newEnd) ==
  /\ appointments # <<>>
  /\ Overlaps(newStart, newEnd,
              Head(appointments).startTime, Head(appointments).endTime)

(* the for loop over the appointments found *)
RECURSIVE ScanAppointments(_, _, _)
ScanAppointments(appointments, newStart, newEnd) ==
  IF appointments = <<>> THEN FALSE
  ELSE IF Overlaps(newStart, newEnd,
                   Head(appointments).startTime, Head(appointments).endTime)
       THEN TRUE
       ELSE ScanAppointments(Tail(appointments), newStart, newEnd)

checkConflict(docs, practitioner, date, startTime, endTime, excludeId) ==
  ScanAppointments(find(docs, Query(practitioner, date, excludeId)),
                   startTime, endTime)

(* a second find after a rejected one *)
checkConflictCall_Retry(docs, available, practitioner, date, startTime, endTime, excludeId) ==
  [practitioner |-> practitioner, date |-> date, startTime |-> startTime,
   endTime |-> endTime, excludeId |-> excludeId, docs |-> docs,
   queries |-> IF available THEN 1 ELSE 2,
   result |-> IF ~available THEN "LookupFailure"
              ELSE IF checkConflict(docs, practitioner, date, startTime, endTime, excludeId)
                   THEN "true" ELSE "false"]

(* One invocation of checkConflict on the collection docs: the arguments,   *)
(* the number of find queries issued and what the caller gets back.  The    *)
(* awaited find either resolves or rejects (available = FALSE), and the     *)
(* rejection leaves the function as it is.                                   *)
checkConflictCall(docs, available, practitioner, date, startTime, endTime, excludeId) ==
  [practitioner |-> practitioner, date |-> date, startTime |-> startTime,
   endTime |-> endTime, excludeId |-> excludeId, docs |-> docs, queries |-> 1,
   result |-> IF ~available THEN "LookupFailure"
              ELSE IF checkConflict(docs, practitioner, date, startTime, endTime, excludeId)
                   THEN "true" ELSE "false"]

----------------------------------------------------------------------------
(* The collection and the values that do not belong to it *)

NoCall == [result |-> "none"]

NoProc == [pc |-> "none"]

NoReply == [op |-> "none"]

AppointmentFields ==
  [practitioner : Practitioners, date : Dates, startTime : Times,
   endTime : Times, status : StatusValues]

(* what the booking layer lets through: startTime < endTime *)
ProperIntervals == { iv \in Times \X Times : StrLT(iv[1], iv[2]) }

ProperAppointments == { a \in AppointmentFields : StrLT(a.startTime, a.endTime) }

Document(id, practitioner, date, startTime, endTime, status) ==
  [id |-> id, practitioner |-> practitioner, date |-> date,
   startTime |-> startTime, endTime |-> endTime, status |-> status]

Insert(docs, practitioner, date, startTime, endTime, status) ==
  Append(docs, Document(Len(docs) + 1, practitioner, date, startTime, endTime, status))

----------------------------------------------------------------------------
(* Direct calls of the detector on a collection holding one appointment *)

InitDetector ==
  /\ store = <<>>
  /\ call = NoCall
  /\ revived = FALSE
  /\ patients = <<>>
  /\ reply = NoReply
  /\ proc = NoProc

Seed(a) ==
  /\ store' = Insert(store, a.practitioner, a.date, a.startTime, a.endTime, a.status)
  /\ UNCHANGED <<call, revived, proc, patients, reply>>

Check(available, practitioner, date, startTime, endTime, excludeId) ==
  /\ call' = checkConflictCall(store, available, practitioner, date,
                               startTime, endTime, excludeId)
  /\ UNCHANGED <<store, revived, proc, patients, reply>>

SeedOne ==
  /\ call = NoCall
  /\ store = <<>>
  /\ \E a \in ProperAppointments : Seed(a)

CheckOnce ==
  /\ call = NoCall
  /\ \E available \in BOOLEAN, p \in Practitioners, d \in Dates,
        s \in Times, e \in Times, x \in {NoId} \cup Ids :
       Check(available, p, d, s, e, x)

NextDetector == SeedOne \/ CheckOnce

SpecDetector == InitDetector /\ [][NextDetector]_vars

----------------------------------------------------------------------------
(* Direct calls of the detector, with a proper interval, on a collection  *)
(* of up to MaxAppts appointments                                          *)

ScanStatuses == {"Scheduled", "Completed", "Cancelled", "No-Show"}

SeedMore ==
  /\ call = NoCall
  /\ Len(store) < MaxAppts
  /\ \E a \in ProperAppointments : a.status \in ScanStatuses /\ Seed(a)

CheckProper ==
  /\ call = NoCall
  /\ \E p \in Practitioners, d \in Dates, iv \in ProperIntervals,
        x \in {NoId} \cup Ids :
       Check(TRUE, p, d, iv[1], iv[2], x)

NextScan == SeedMore \/ CheckProper

SpecScan == InitDetector /\ [][NextScan]_vars

----------------------------------------------------------------------------
(* What the statements below are stated with *)

DocSet(docs) == { docs[i] : i \in DOMAIN docs }

Active(a) == a.status # "Cancelled" /\ a.status # "No-Show"

DayOf(date) == date \div DayLen

SameDay(d1, d2) == DayOf(d1) = DayOf(d2)

(* the reference test of two half-open intervals [s1, e1) and [s2, e2) *)
HalfOpenOverlap(s1, e1, s2, e2) == StrLT(s1, e2) /\ StrLT(s2, e1)

Answered == call.result \in {"true", "false"}

ProperCall == Answered /\ StrLT(call.startTime, call.endTime)

(* a is of the practitioner and the day the call asks about *)
SameBucket(a) ==
  a.practitioner = call.practitioner /\ SameDay(a.date, call.date)

Candidate(a) == SameBucket(a) /\ Active(a) /\ a.id # call.excludeId

OverlapsCall(a) ==
  HalfOpenOverlap(call.startTime, call.endTime, a.startTime, a.endTime)

BoolStr(b) == IF b THEN "true" ELSE "false"

FirstTick(day) == day * DayLen

LastTick(day) == day * DayLen + (DayLen - 1)

(* [s1, e1) contains [s2, e2) *)
Contains(s1, e1, s2, e2) == StrLE(s1, s2) /\ StrLE(e2, e1)

WithoutInactive(docs) == SelectSeq(docs, Active)

----------------------------------------------------------------------------
(* C2: for a proper proposed interval and a collection of proper           *)
(* appointments, checkConflict answers true exactly when some stored       *)
(* appointment of the same practitioner on the same day, neither           *)
(* Cancelled nor No-Show and other than excludeId, overlaps the proposed   *)
(* interval as half-open intervals do (newStart < existingEnd and          *)
(* existingStart < newEnd); so false means that none does.                 *)
C2_ReferenceOverlap ==
  ProperCall =>
    (call.result = "true"
       <=> \E a \in DocSet(call.docs) : Candidate(a) /\ OverlapsCall(a))

(* the first appointment found does not overlap and the second does *)
C2_Witness ==
  /\ ProperCall
  /\ call.result = "true"
  /\ Len(call.docs) = 2
  /\ Candidate(call.docs[1]) /\ ~OverlapsCall(call.docs[1])
  /\ Candidate(call.docs[2]) /\ OverlapsCall(call.docs[2])

(* C4: back-to-back intervals do not conflict: with [s, e) the only active *)
(* appointment of the practitioner on the day, checkConflict answers false *)
(* for every proper interval that starts at e and for every one that ends  *)
(* at s.                                                                   *)
C4_BackToBack ==
  Answered =>
    \A a \in DocSet(call.docs) :
      ( /\ SameBucket(a) /\ Active(a)
        /\ \A b \in DocSet(call.docs) : (SameBucket(b) /\ Active(b)) => b = a
        /\ StrLT(call.startTime, call.endTime)
        /\ (call.startTime = a.endTime \/ call.endTime = a.startTime) )
      => call.result = "false"

C4_Witness ==
  /\ call.result = "false"
  /\ call.excludeId = NoId
  /\ StrLT(call.startTime, call.endTime)
  /\ \E a \in DocSet(call.docs) :
       SameBucket(a) /\ Active(a) /\ call.startTime = a.endTime

(* C5: when the proposed interval contains an interval stored for the same *)
(* practitioner and day (active, not excluded), or is contained in it,     *)
(* checkConflict answers true; and for identical intervals each of the     *)
(* three disjuncts of the test is true by itself.                          *)
C5_Containment ==
  ProperCall =>
    \A a \in DocSet(call.docs) :
      Candidate(a) =>
        /\ ( \/ Contains(call.startTime, call.endTime, a.startTime, a.endTime)
             \/ Contains(a.startTime, a.endTime, call.startTime, call.endTime) )
           => call.result = "true"
        /\ (call.startTime = a.startTime /\ call.endTime = a.endTime)
           => /\ NewStartWithin(call.startTime, call.endTime, a.startTime, a.endTime)
              /\ NewEndWithin(call.startTime, call.endTime, a.startTime, a.endTime)
              /\ NewCovers(call.startTime, call.endTime, a.startTime, a.endTime)

(* the proposed interval lies strictly inside the stored one *)
C5_Witness ==
  /\ ProperCall
  /\ call.result = "true"
  /\ \E a \in DocSet(call.docs) :
       /\ Candidate(a)
       /\ StrLT(a.startTime, call.startTime)
       /\ StrLT(call.endTime, a.endTime)

(* C6: Cancelled and No-Show appointments never contribute: the answer is  *)
(* the answer on the collection without them, and it is false when every   *)
(* appointment of the practitioner and day that overlaps the proposed      *)
(* interval (by the half-open test or by the detector's own) is Cancelled  *)
(* or No-Show.                                                             *)
C6_InactiveIgnored ==
  Answered =>
    /\ call.result =
         BoolStr(checkConflict(WithoutInactive(call.docs), call.practitioner,
                               call.date, call.startTime, call.endTime,
                               call.excludeId))
    /\ ( \A a \in DocSet(call.docs) :
           ( /\ SameBucket(a)
             /\ a.id # call.excludeId
             /\ \/ OverlapsCall(a)
                \/ Overlaps(call.startTime, call.endTime, a.startTime, a.endTime) )
           => ~Active(a) )
       => call.result = "false"

C6_Witness ==
  /\ call.result = "false"
  /\ call.excludeId = NoId
  /\ \E a \in DocSet(call.docs) :
       SameBucket(a) /\ a.status = "No-Show" /\ OverlapsCall(a)

(* C7: a self-update does not conflict with itself: with excludeId the id  *)
(* of the only stored appointment that overlaps the proposed interval the  *)
(* answer is false, and an overlapping appointment other than excludeId    *)
(* still makes it true.                                                    *)
C7_SelfUpdate ==
  ProperCall =>
    /\ ( /\ \E a \in DocSet(call.docs) :
              a.id = call.excludeId /\ SameBucket(a) /\ Active(a) /\ OverlapsCall(a)
         /\ \A b \in DocSet(call.docs) :
              b.id # call.excludeId => ~OverlapsCall(b) )
       => call.result = "false"
    /\ ( /\ call.excludeId # NoId
         /\ \E a \in DocSet(call.docs) : Candidate(a) /\ OverlapsCall(a) )
       => call.result = "true"

C7_Witness ==
  /\ ProperCall
  /\ call.result = "false"
  /\ \E a \in DocSet(call.docs) :
       a.id = call.excludeId /\ SameBucket(a) /\ Active(a) /\ OverlapsCall(a)

(* C8: only appointments of the same practitioner dated within the         *)
(* inclusive day window of the given date are candidates: without one the  *)
(* answer is never true, and an active, overlapping appointment dated at   *)
(* the first or at the last instant of that day makes it true.             *)
C8_DayWindow ==
  Answered =>
    /\ call.result = "true" => \E a \in DocSet(call.docs) : SameBucket(a)
    /\ \A a \in DocSet(call.docs) :
         ( /\ a.practitioner = call.practitioner
           /\ a.date \in {FirstTick(DayOf(call.date)), LastTick(DayOf(call.date))}
           /\ Active(a) /\ a.id # call.excludeId
           /\ ProperCall /\ OverlapsCall(a) )
         => call.result = "true"

(* asked at the last instant of the day, about an appointment dated at the first *)
C8_Witness ==
  /\ call.result = "true"
  /\ call.date = LastTick(DayOf(call.date))
  /\ \E a \in DocSet(call.docs) :
       /\ a.practitioner = call.practitioner
       /\ a.date = FirstTick(DayOf(call.date))
       /\ a.date # call.date

(* C9: checkConflict only reads: whatever it returns, and also when the    *)
(* lookup fails, the collection is as it was before the call, and the call *)
(* has issued one find query.                                              *)
C9_ReadOnly ==
  call # NoCall => (store = call.docs /\ call.queries = 1)

C9_Witness ==
  /\ call.result = "LookupFailure"
  /\ store # <<>>
  /\ store = call.docs

(* C11: for a zero-length proposed interval (startTime = endTime = t) and  *)
(* a single active appointment [s, e) of the practitioner and day, s < e,  *)
(* checkConflict answers true exactly when s <= t <= e: also at t = e,     *)
(* which the half-open interval [s, e) does not contain.                   *)
C11_ZeroLength ==
  (Answered /\ call.startTime = call.endTime) =>
    \A a \in DocSet(call.docs) :
      ( /\ Candidate(a)
        /\ \A b \in DocSet(call.docs) : Candidate(b) => b = a
        /\ StrLT(a.startTime, a.endTime) )
      => (call.result = "true"
            <=> StrLE(a.startTime, call.startTime) /\ StrLE(call.startTime, a.endTime))

(* asked about the instant at which the stored appointment ends *)
C11_Witness ==
  /\ call.result = "true"
  /\ call.startTime = call.endTime
  /\ \E a \in DocSet(call.docs) :
       /\ Candidate(a)
       /\ call.startTime = a.endTime
       /\ ~OverlapsCall(a)

----------------------------------------------------------------------------
(* The booking operations: the detector is consulted before a new or a     *)
(* changed interval is persisted, and a conflict persists nothing.  One    *)
(* request runs at a time.                                                 *)

InitBooking ==
  /\ store = <<>>
  /\ call = NoCall
  /\ revived = FALSE
  /\ patients = <<>>
  /\ reply = NoReply
  /\ proc = NoProc

createAppointment(practitioner, date, startTime, endTime) ==
  /\ Len(store) < MaxAppts
  /\ IF checkConflict(store, practitioner, date, startTime, endTime, NoId)
     THEN UNCHANGED store
     ELSE store' = Insert(store, practitioner, date, startTime, endTime,
                          DefaultStatus)
  /\ UNCHANGED <<call, revived, proc, patients, reply>>

updateAppointment(id, date, startTime, endTime) ==
  /\ id \in DOMAIN store
  /\ IF checkConflict(store, store[id].practitioner, date, startTime, endTime, id)
     THEN UNCHANGED store
     ELSE store' = [store EXCEPT ![id].date = date,
                                 ![id].startTime = startTime,
                                 ![id].endTime = endTime]
  /\ UNCHANGED <<call, revived, proc, patients, reply>>

(* a plain write of the status field; revived records that some write has *)
(* brought a Cancelled or No-Show appointment back                         *)
setStatus(id, status) ==
  /\ id \in DOMAIN store
  /\ store' = [store EXCEPT ![id].status = status]
  /\ revived' = (revived \/ (~Active(store[id]) /\ Active(store'[id])))
  /\ UNCHANGED <<call, proc, patients, reply>>

Create ==
  \E p \in Practitioners, d \in Dates, iv \in ProperIntervals :
    createAppointment(p, d, iv[1], iv[2])

Update ==
  \E id \in Ids, d \in Dates, iv \in ProperIntervals :
    updateAppointment(id, d, iv[1], iv[2])

AnyStatus == \E id \in Ids, st \in StatusValues : setStatus(id, st)

Next == Create \/ Update

Spec == InitBooking /\ [][Next]_vars

NextStatus == Create \/ Update \/ AnyStatus

SpecStatus == InitBooking /\ [][NextStatus]_vars

(* two stored appointments that the invariant forbids *)
Clash(a, b) ==
  /\ a.id # b.id
  /\ a.practitioner = b.practitioner
  /\ SameDay(a.date, b.date)
  /\ Active(a) /\ Active(b)
  /\ HalfOpenOverlap(a.startTime, a.endTime, b.startTime, b.endTime)

DoubleBooked(docs) == \E a \in DocSet(docs), b \in DocSet(docs) : Clash(a, b)

(* C1: after any sequence of creations and interval updates, each persisted *)
(* only when checkConflict answered false (excludeId being the updated      *)
(* appointment's id), no two stored appointments of one practitioner and    *)
(* day, neither Cancelled nor No-Show, have overlapping half-open intervals. *)
C1_NoDoubleBooking == ~DoubleBooked(store)

(* two appointments of one practitioner and day, back to back *)
C1_Witness ==
  /\ Len(store) = 2
  /\ store[1].practitioner = store[2].practitioner
  /\ SameDay(store[1].date, store[2].date)
  /\ store[2].endTime = store[1].startTime

(* C10 as stated: the invariant holds whatever status writes happen *)
C10_AnyStatusWrite ==
  \A a \in DocSet(store), b \in DocSet(store) : ~Clash(a, b)

(* C10 amended: the invariant holds as long as no status write has brought *)
(* a Cancelled or No-Show appointment back to Scheduled, Confirmed,        *)
(* Completed or Rescheduled.                                               *)
C10_NoRevival == ~revived => ~DoubleBooked(store)

(* a slot of a cancelled appointment has been booked again *)
C10_Witness ==
  /\ ~revived
  /\ Len(store) = 2
  /\ store[1].status = "Cancelled"
  /\ Active(store[2])
  /\ store[1].practitioner = store[2].practitioner
  /\ SameDay(store[1].date, store[2].date)
  /\ HalfOpenOverlap(store[1].startTime, store[1].endTime,
                     store[2].startTime, store[2].endTime)

----------------------------------------------------------------------------
(* Two booking requests in flight at once.  Each is a checkConflict read    *)
(* and, when it answered false, a separate insert; nothing is held between  *)
(* the two steps, so the steps of the two requests interleave freely.       *)

Procs == {1, 2}

Requests ==
  { r \in [practitioner : Practitioners, date : Dates,
           startTime : Times, endTime : Times] :
      StrLT(r.startTime, r.endTime) }

InitRace ==
  /\ store = <<>>
  /\ call = NoCall
  /\ revived = FALSE
  /\ patients = <<>>
  /\ reply = NoReply
  /\ \E r1 \in Requests, r2 \in Requests :
       proc = [i \in Procs |->
                 [pc |-> "check", req |-> IF i = 1 THEN r1 ELSE r2,
                  docs |-> <<>>, conflict |-> FALSE]]

(* the read: docs is the collection as the find saw it *)
RaceCheck(i) ==
  /\ proc[i].pc = "check"
  /\ LET r == proc[i].req
         c == checkConflict(store, r.practitioner, r.date, r.startTime,
                            r.endTime, NoId)
     IN proc' = [proc EXCEPT ![i].docs = store,
                             ![i].conflict = c,
                             ![i].pc = IF c THEN "rejected" ELSE "persist"]
  /\ UNCHANGED <<store, call, revived, patients, reply>>

(* the write that follows an answer of false *)
RacePersist(i) ==
  /\ proc[i].pc = "persist"
  /\ LET r == proc[i].req
     IN store' = Insert(store, r.practitioner, r.date, r.startTime, r.endTime,
                        DefaultStatus)
  /\ proc' = [proc EXCEPT ![i].pc = "done"]
  /\ UNCHANGED <<call, revived, patients, reply>>

NextRace == \E i \in Procs : RaceCheck(i) \/ RacePersist(i)

SpecRace == InitRace /\ [][NextRace]_vars

RaceOver == \A i \in Procs : proc[i].pc \in {"done", "rejected"}

RequestsClash ==
  /\ proc[1].req.practitioner = proc[2].req.practitioner
  /\ SameDay(proc[1].req.date, proc[2].req.date)
  /\ HalfOpenOverlap(proc[1].req.startTime, proc[1].req.endTime,
                     proc[2].req.startTime, proc[2].req.endTime)

(* C3: two concurrent requests for the same practitioner and day with      *)
(* overlapping intervals can both pass the check and both be persisted:    *)
(* once both requests are over, the store is double-booked exactly when    *)
(* the requests clash and each check read the collection before the other  *)
(* request's insert; the witness is that interleaving.                     *)
C3_CheckThenActRace ==
  RaceOver =>
    (DoubleBooked(store)
       <=> /\ RequestsClash
           /\ \A i \in Procs : proc[i].docs = <<>>)

C3_Witness ==
  /\ RequestsClash
  /\ \A i \in Procs : proc[i].pc = "done" /\ ~proc[i].conflict
  /\ Len(store) = 2
  /\ DoubleBooked(store)

----------------------------------------------------------------------------
(* The patient service (backend/src/services/patientService.js) on the     *)
(* Patient collection.  A patient is the record of _id, idNumber and       *)
(* isActive; whether the other fields of a payload pass the schema's       *)
(* validators is the payload's flag valid.  An idNumber is a string, the   *)
(* sequence of its code units; the schema trims it, in documents and in    *)
(* query filters alike.                                                    *)

RECURSIVE TrimStart(_)
TrimStart(s) ==
  IF s # <<>> /\ Head(s) = Space THEN TrimStart(Tail(s)) ELSE s

RECURSIVE TrimEnd(_)
TrimEnd(s) ==
  IF s # <<>> /\ s[Len(s)] = Space THEN TrimEnd(SubSeq(s, 1, Len(s) - 1)) ELSE s

(* String.prototype.trim, the setter of trim: true *)
Trim(s) == TrimEnd(TrimStart(s))

(* idNumber values a request may carry: plain and padded *)
IdInputs ==
  { <<d>> : d \in 1..MaxIdDigit } \cup { <<Space, 1>>, <<2, Space>> }

PatientIds == 1..MaxPatients

(* the filter { idNumber } compared as sent, the setter not applied *)
findOneByIdNumber_Untrimmed(docs, idNumber, exceptId) ==
  SelectSeq(docs, LAMBDA p : p.idNumber = idNumber /\ p.id # exceptId)

(* Patient.findOne({ idNumber, _id: { $ne } }): the documents it can return *)
findOneByIdNumber(docs, idNumber, exceptId) ==
  SelectSeq(docs, LAMBDA p : p.idNumber = Trim(idNumber) /\ p.id # exceptId)

(* Patient.findById *)
findById(docs, patientId) == SelectSeq(docs, LAMBDA p : p.id = patientId)

(* the unique index on idNumber refuses the write *)
DuplicateKey(docs, idNumber, exceptId) ==
  \E i \in DOMAIN docs : docs[i].idNumber = idNumber /\ docs[i].id # exceptId

Reply(op, patientId, idNumber, statusCode, before) ==
  [op |-> op, patientId |-> patientId, idNumber |-> idNumber,
   statusCode |-> statusCode, before |-> before]

InitPatients ==
  /\ store = <<>>
  /\ call = NoCall
  /\ revived = FALSE
  /\ proc = NoProc
  /\ patients = <<>>
  /\ reply = NoReply

createPatient(idNumber, valid) ==
  /\ Len(patients) < MaxPatients
  /\ IF findOneByIdNumber(patients, idNumber, NoId) # <<>>
     THEN /\ reply' = Reply("create", NoId, idNumber, 400, patients)
          /\ UNCHANGED patients
     ELSE IF ~valid \/ DuplicateKey(patients, Trim(idNumber), NoId)
     THEN /\ reply' = Reply("create", NoId, idNumber, 500, patients)
          /\ UNCHANGED patients
     ELSE /\ reply' = Reply("create", Len(patients) + 1, idNumber, 200, patients)
          /\ patients' = Append(patients,
                                [id |-> Len(patients) + 1,
                                 idNumber |-> Trim(idNumber),
                                 isActive |-> TRUE])
  /\ UNCHANGED <<store, call, revived, proc>>

(* updateData carries an idNumber (hasIdNumber) or leaves it out *)
updatePatient(patientId, hasIdNumber, idNumber, valid) ==
  /\ LET found == findById(patients, patientId)
         sent == IF hasIdNumber THEN idNumber ELSE <<>>
     IN IF found = <<>>
        THEN /\ reply' = Reply("update", patientId, sent, 404, patients)
             /\ UNCHANGED patients
        ELSE IF /\ hasIdNumber
                /\ idNumber # found[1].idNumber
                /\ findOneByIdNumber(patients, idNumber, patientId) # <<>>
        THEN /\ reply' = Reply("update", patientId, sent, 400, patients)
             /\ UNCHANGED patients
        ELSE IF ~valid
                \/ (hasIdNumber /\ DuplicateKey(patients, Trim(idNumber), patientId))
        THEN /\ reply' = Reply("update", patientId, sent, 500, patients)
             /\ UNCHANGED patients
        ELSE /\ reply' = Reply("update", patientId, sent, 200, patients)
             /\ patients' =
                  [i \in DOMAIN patients |->
                     IF patients[i].id = patientId /\ hasIdNumber
                     THEN [patients[i] EXCEPT !.idNumber = Trim(idNumber)]
                     ELSE patients[i]]
  /\ UNCHANGED <<store, call, revived, proc>>

deletePatient(patientId) ==
  /\ IF findById(patients, patientId) = <<>>
     THEN /\ reply' = Reply("delete", patientId, <<>>, 404, patients)
          /\ UNCHANGED patients
     ELSE /\ reply' = Reply("delete", patientId, <<>>, 200, patients)
          /\ patients' =
               [i \in DOMAIN patients |->
                  IF patients[i].id = patientId
                  THEN [patients[i] EXCEPT !.isActive = FALSE]
                  ELSE patients[i]]
  /\ UNCHANGED <<store, call, revived, proc>>

CreatePatient == \E n \in IdInputs, valid \in BOOLEAN : createPatient(n, valid)

UpdatePatient ==
  \E id \in PatientIds, has \in BOOLEAN, n \in IdInputs, valid \in BOOLEAN :
    updatePatient(id, has, n, valid)

DeletePatient == \E id \in PatientIds : deletePatient(id)

NextPatients == CreatePatient \/ UpdatePatient \/ DeletePatient

SpecPatients == InitPatients /\ [][NextPatients]_vars

(* some patient of docs, other than exceptId, holds idNumber as stored *)
HeldByAnother(docs, idNumber, exceptId) ==
  \E i \in DOMAIN docs :
    docs[i].idNumber = Trim(idNumber) /\ docs[i].id # exceptId

(* C12: after any sequence of createPatient and updatePatient calls, one   *)
(* at a time, no two stored patients have the same idNumber; a             *)
(* createPatient whose idNumber is already stored, and an updatePatient    *)
(* of an existing patient that carries an idNumber held by another         *)
(* patient, fail with statusCode 400 and leave the collection as it was;   *)
(* and deletePatient removes no record, it only sets isActive to false.    *)
C12_UniqueIdNumber ==
  /\ \A i \in DOMAIN patients, j \in DOMAIN patients :
       patients[i].idNumber = patients[j].idNumber => i = j
  /\ ( /\ reply.op = "create"
       /\ HeldByAnother(reply.before, reply.idNumber, NoId) )
     => (reply.statusCode = 400 /\ patients = reply.before)
  /\ ( /\ reply.op = "update"
       /\ reply.idNumber # <<>>
       /\ \E i \in DOMAIN reply.before : reply.before[i].id = reply.patientId
       /\ HeldByAnother(reply.before, reply.idNumber, reply.patientId) )
     => (reply.statusCode = 400 /\ patients = reply.before)
  /\ reply.op = "delete"
     => /\ DOMAIN patients = DOMAIN reply.before
        /\ \A i \in DOMAIN patients :
             /\ patients[i].id = reply.before[i].id
             /\ patients[i].idNumber = reply.before[i].idNumber
             /\ patients[i].isActive =
                  (reply.before[i].isActive /\ reply.before[i].id # reply.patientId)

(* a padded copy of the idNumber of a deactivated patient is refused *)
C12_Witness ==
  /\ reply.op = "create"
  /\ reply.statusCode = 400
  /\ reply.idNumber # Trim(reply.idNumber)
  /\ patients = reply.before
  /\ \E i \in DOMAIN patients :
       patients[i].idNumber = Trim(reply.idNumber) /\ ~patients[i].isActive

====
